---- MODULE Spec2Model ----
(***************************************************************************)
(* Playback controller of RealTimeSimulationViewer                         *)
(* (src/unnamed/part_000, components/real-time-simulation-viewer).         *)
(*                                                                         *)
(* The component is a React 18 function component (Next.js 14).  Its       *)
(* state lives in useState hooks, its callbacks close over the values of   *)
(* the render that created them, and its effects run after a commit:       *)
(*   - an event handler or timer callback reads the values of the last     *)
(*     committed render (the variable "rendered") and queues state         *)
(*     updates (the state variables hold the queue's result);              *)
(*   - Render commits the queued state and schedules the effects whose     *)
(*     dependencies changed;                                               *)
(*   - MountEffects and AnimationEffect run the scheduled effects (the     *)
(*     cleanup, then the body) with the closures of the committed render;  *)
(*     pending effects are always flushed before the next render;          *)
(*   - an update made by a discrete event (a click) is rendered and its    *)
(*     effects are flushed before any other task runs (phase # "idle");    *)
(*     updates made by timers, effects and slider drags are rendered in    *)
(*     later tasks, between which timers and events may run.               *)
(* Speeds are counted in tenths (10 = 1.0x), delays in milliseconds.       *)
(*                                                                         *)
(* Spec is the playback controller; it abstracts a frame to its index.     *)
(* FieldSpec is generateFrameData itself: the calls a view makes (mount,   *)
(* stop, seek, tick) over a supplied frame list, each computing the        *)
(* frame's time and scalars and then its pressure and velocity cells, one  *)
(* loop round per step, in fixed-point arithmetic.  ViewSpec is the same   *)
(* calls under a config prop that changes between them.                    *)
(*                                                                         *)
(* ScalingSpec is the path of an explosive's mass and type: the            *)
(* new-simulation page, the create API and the two blast scalings.         *)
(* HookSpec is useRealTimeData as RealTimeMap calls it; PinnSpec is the    *)
(* PINN training monitor.  Each specification steps its own variables and  *)
(* leaves the others at their initial values.                              *)
(***************************************************************************)
EXTENDS Integers, FiniteSets, Sequences, TLC

VARIABLES
    frames_length,    \* frames.length of the frames prop (fixed for a view)
    isPlaying,        \* useState(false)
    currentFrame,     \* useState(0)
    totalFrames,      \* useState(Math.max(frames.length, 250))
    simulationData,   \* useState<SimulationFrame | null>(null)
    playbackSpeed,    \* useState(1), in tenths
    canvas,           \* the frame last drawn by renderFrame
    animationRef,     \* animationRef.current: a timer id, 0 for undefined
    timers,           \* pending setTimeout callbacks with their closures
    rendered,         \* state values of the last committed render
    renderPending,    \* a state update is queued and not yet rendered
    animPending,      \* the animation effect is scheduled and not yet run
    initPending,      \* the mount effects are scheduled and not yet run
    phase,            \* "idle", or a discrete update's "pre" / "post" step
    lastOp,           \* history: the step taken last
    lastReq,          \* history: the index or speed that step asked for
    control,          \* history: the last of play / pause / stop
    heldFrame,        \* history: the frame a paused or stopped view was left at
    sweep,            \* history: frames 0 .. sweep-1 were shown in order since
                      \* the last play or seek (back to 0 after the last frame)
    frames,           \* the frames prop: the supplied frames (time, pressure,
                      \* velocity), read by generateFrameData
    terrain,          \* buildings, roads and elevation are present
    generated,        \* the frame generateFrameData is building or built last:
                      \* its index, time and scalars, and the step that asked,
                      \* with the config prop of that render
    emitted,          \* history: the scalars first emitted for each index
    cell,             \* position of generateFrameData in its two grid loops
    pressure,         \* the pressure cell pushed last
    velocity,         \* the velocity cell pushed last
    config,           \* the viewer's config prop (explosiveType, explosiveMass)
    form,             \* new-simulation page: useState<SimulationConfig>
    formError,        \* new-simulation page: useState<string | null>(null)
    mockSimulations,  \* the create API's store, as (type, mass) entries
    posted,           \* history: the body of the last POST and its status
    blast,            \* history: the scaling computed last from the config
    mapCenter,        \* the centre useRealTimeData is called with
    loading,          \* useRealTimeData: useState(false)
    error,            \* useRealTimeData: useState<string | null>(null)
    data,             \* useRealTimeData: buildings, roads and elevation
    fetchingRef,      \* useRealTimeData: fetchingRef.current
    lastBboxRef,      \* useRealTimeData: lastBboxRef.current
    fetchData,        \* position of the running fetchData call, its bbox
    hook,             \* a render of the hook, its fetch effect is pending; the
                      \* centre of the render committed last
    settled,          \* history: the bbox whose fetch ended with an error, with
                      \* no refetch() and no change of the bbox since
    isTraining,       \* PINN monitor: useState(false)
    status,           \* PINN monitor: useState("idle")
    progress,         \* PINN monitor: useState(0), in percent
    currentEpoch,     \* PINN monitor: useState(0)
    totalEpochs,      \* PINN monitor: useState(10000)
    trainingMetrics,  \* PINN monitor: the epochs of the recorded loss points
    finalMetrics,     \* PINN monitor: useState<any>(null)
    training          \* position of the running startTraining call, the
                      \* isTraining it closed over, the loop's epoch, the
                      \* error state, and history: the rounds the mock loop
                      \* ran, the metrics onTrainingComplete was called with

\* the state of the playback controller
PlaybackVars == <<frames_length, isPlaying, currentFrame, totalFrames,
                  simulationData, playbackSpeed, canvas, animationRef, timers,
                  rendered, renderPending, animPending, initPending, phase,
                  lastOp, lastReq, control, heldFrame, sweep>>

\* the state of a call of generateFrameData
FieldVars == <<frames, terrain, generated, emitted, cell, pressure, velocity>>

ScalingVars == <<config, form, formError, mockSimulations, posted, blast>>

HookVars == <<mapCenter, loading, error, data, fetchingRef, lastBboxRef,
              fetchData, hook, settled>>

PinnVars == <<isTraining, status, progress, currentEpoch, totalEpochs,
              trainingMetrics, finalMetrics, training>>

vars == <<PlaybackVars, FieldVars, ScalingVars, HookVars, PinnVars>>

-----------------------------------------------------------------------------
(* Bounds of the model *)

\* longest supplied frame list
MaxSupplied == 251
\* most timers pending at once before scheduling is cut off
MaxTimers == 3

(* Program constants *)

MinFrames == 250
BaseInterval == 100
InitialSpeed == 10
SpeedSliderMin == 1
SpeedSliderMax == 30
SkipStep == 10

\* lengths of the frames prop: missing or empty, sparse, longer than 250
FrameCounts == {0, 1, MaxSupplied}
\* values the frame slider is asked for (in range and out of range)
SeekRequests == {-5, 5, 9999}
\* values the speed slider is asked for, in tenths (0.0 and 10.0)
SpeedRequests == {0, 100}

NoFrame == [frame |-> -1]

Max(a, b) == IF a >= b THEN a ELSE b
Min(a, b) == IF a <= b THEN a ELSE b

-----------------------------------------------------------------------------
(* Pure functions *)

\* mutant: the frame count taken as supplied, without the floor of 250
InitialTotalFramesNoFloor(len) == len

\* Math.max(frames.length, 250)
InitialTotalFrames(len) == Max(len, MinFrames)

\* generateFrameData(frameIndex): the frame record; its frame field is the index
generateFrameData(frameIndex) == [frame |-> frameIndex]

\* the Slider component: a requested value ends inside [min, max]
SliderValue(v, lo, hi) == Min(Max(v, lo), hi)

\* const delay = 100 / playbackSpeed; a division by 0 gives Infinity (-1 here)
Delay(speed) == IF speed = 0 THEN -1 ELSE (BaseInterval * 10) \div speed

\* mutant: the next frame without the wrap
NextFrameNoWrap(cf, total) == cf + 1

\* mutant: playback that stays on the last frame
NextFrameStopAtEnd(cf, total) == Min(cf + 1, total - 1)

\* const nextFrame = (currentFrame + 1) % totalFrames
NextFrame(cf, total) == (cf + 1) % total

\* mutant: the skip back without Math.max
SkipBackNoClamp(cf) == cf - SkipStep

\* Math.max(0, currentFrame - 10)
SkipBackTarget(cf) == Max(0, cf - SkipStep)

\* Math.min(totalFrames - 1, currentFrame + 10)
SkipForwardTarget(cf, total) == Min(total - 1, cf + SkipStep)

\* setTimeout returns an id no pending timer has (and not the one in the ref)
FreshTimerId(tm, ref) ==
    CHOOSE i \in 1..(MaxTimers + 2) :
        /\ i # ref
        /\ \A t \in tm : t.id # i
        /\ \A j \in 1..(i - 1) : j = ref \/ \E t \in tm : t.id = j

\* mutant: a clearTimeout that cancels nothing
ClearTimeoutNothing(tm, id) == tm

\* clearTimeout(id)
ClearTimeout(tm, id) == {t \in tm : t.id # id}

-----------------------------------------------------------------------------
(* Frame arithmetic.  The program computes in IEEE doubles; the model        *)
(* computes in fixed point, a number x being the integer floor(x * Scale).   *)
(* Tests that decide a branch (distance <= waveRadius, the velocity band)    *)
(* are made on exact squares, so that a cell is never put on the wrong side  *)
(* of a cutoff by rounding.                                                  *)

\* one unit in fixed point (three decimal places)
Scale == 1000

Abs(a) == IF a < 0 THEN -a ELSE a

\* floor(a * b / c) for c > 0, computed without leaving the 32-bit integers
MulDiv(a, b, c) == (a \div c) * b + ((a % c) * b) \div c

\* the product a * b of two fixed-point numbers
Mul(a, b) == MulDiv(a, b, Scale)

\* e and 1 / e
EulerE == 2718
EulerInv == 368

RECURSIVE ExpSeries(_, _, _, _)
\* the series 1 + r + r^2/2! + ... for 0 <= r < 1, summed from term number k
ExpSeries(r, k, term, acc) ==
    IF term = 0 \/ k > 12 THEN acc
    ELSE ExpSeries(r, k + 1, (term * r) \div (k * Scale), acc + term)

RECURSIVE ExpPower(_, _)
\* acc * e^n for an integer n
ExpPower(n, acc) ==
    IF n = 0 THEN acc
    ELSE IF n > 0 THEN ExpPower(n - 1, Mul(acc, EulerE))
    ELSE ExpPower(n + 1, Mul(acc, EulerInv))

\* Math.exp(x)
Exp(x) == ExpPower(x \div Scale, ExpSeries(x % Scale, 1, Scale, 0))

\* pi, pi / 2 and 2 * pi
Pi == 3142
HalfPi == 1571
TwoPi == 6283

\* sin(x) for 0 <= x <= pi / 2: x - x^3/3! + x^5/5! - x^7/7!
SinSeries(x) ==
    LET x2 == Mul(x, x)
        x3 == Mul(x2, x)
        x5 == Mul(x3, x2)
        x7 == Mul(x5, x2)
    IN  x - (x3 \div 6) + (x5 \div 120) - (x7 \div 5040)

\* Math.sin(x)
Sin(x) ==
    LET r == x % TwoPi
        h == IF r >= Pi THEN r - Pi ELSE r
        q == IF h > HalfPi THEN Pi - h ELSE h
    IN  IF r >= Pi THEN -SinSeries(q) ELSE SinSeries(q)

RECURSIVE SqrtSearch(_, _, _)
\* the largest k in lo .. hi with k * k <= n
SqrtSearch(n, lo, hi) ==
    IF lo >= hi THEN lo
    ELSE LET mid == (lo + hi + 1) \div 2
         IN  IF mid * mid <= n THEN SqrtSearch(n, mid, hi)
             ELSE SqrtSearch(n, lo, mid - 1)

\* floor(sqrt(n)) for an integer n below 2^31
ISqrt(n) == SqrtSearch(n, 0, 46340)

-----------------------------------------------------------------------------
(* generateFrameData: the frame of an index.  Times, pressures and          *)
(* velocities are fixed-point numbers.                                       *)

\* frameIndex * 0.1
FixedDt == 100
\* frame.pressure * 15 and frame.velocity * 350
PressureScale == 15
VelocityScale == 350
\* 15.0 * Math.exp(-t * 0.8) * Math.max(0, 1 - t * 0.3)
PeakPressure == 15000
PressureDecay == 800
PressureFalloff == 300
\* 350.0 * Math.exp(-t * 0.5) * Math.max(0, Math.sin(t * 1.5))
PeakVelocity == 350000
VelocityDecay == 500
VelocityFrequency == 1500
\* waveRadius = t * 8
PropagationSpeed == 8
\* the pressure grid and its centre (25, 25)
PressureGrid == 50
PressureCentre == 25
\* the velocity grid; its centre is (12.5, 12.5), kept doubled
VelocityGrid == 25
VelocityCentre2 == 25
\* the width of the velocity band
BandWidth == 3

\* n < r * r and n <= r * r for n below 2^31 and r >= 0
SquareAbove(n, r) == r > 46340 \/ n < r * r
SquareAtLeast(n, r) == r > 46340 \/ n <= r * r

\* the literal { time: frameIndex * 0.1, pressure: 0, velocity: 0, ... }
DefaultFrame(frameIndex) ==
    [time |-> frameIndex * FixedDt, pressure |-> 0, velocity |-> 0]

\* mutant: past the end of the list, the last supplied frame
suppliedFrameHoldLast(fr, frameIndex) ==
    IF frameIndex >= 0 /\ frameIndex < Len(fr) THEN fr[frameIndex + 1]
    ELSE IF frameIndex >= Len(fr) /\ Len(fr) > 0 THEN fr[Len(fr)]
    ELSE DefaultFrame(frameIndex)

\* const frame = frames[frameIndex] || { ... }
suppliedFrame(fr, frameIndex) ==
    IF frameIndex >= 0 /\ frameIndex < Len(fr) THEN fr[frameIndex + 1]
    ELSE DefaultFrame(frameIndex)

\* const t = frame.time || frameIndex * 0.1
frameTime(fr, frameIndex) ==
    LET frame == suppliedFrame(fr, frameIndex)
    IN  IF frame.time # 0 THEN frame.time ELSE frameIndex * FixedDt

\* 15.0 * Math.exp(-t * 0.8) * Math.max(0, 1 - t * 0.3)
AnalyticPressure(t) ==
    Mul(Mul(PeakPressure, Exp(Mul(-t, PressureDecay))),
        Max(0, Scale - Mul(t, PressureFalloff)))

\* 350.0 * Math.exp(-t * 0.5) * Math.max(0, Math.sin(t * 1.5))
AnalyticVelocity(t) ==
    Mul(Mul(PeakVelocity, Exp(Mul(-t, VelocityDecay))),
        Max(0, Sin(Mul(t, VelocityFrequency))))

\* mutant: a supplied pressure is used whenever a frame is supplied, 0 included
maxPressureKeepsZero(fr, frameIndex) ==
    IF frameIndex >= 0 /\ frameIndex < Len(fr)
    THEN fr[frameIndex + 1].pressure * PressureScale
    ELSE AnalyticPressure(frameTime(fr, frameIndex))

\* const maxPressure = frame.pressure * 15 || <analytic>
maxPressure(fr, frameIndex) ==
    LET frame == suppliedFrame(fr, frameIndex)
    IN  IF frame.pressure * PressureScale # 0
        THEN frame.pressure * PressureScale
        ELSE AnalyticPressure(frameTime(fr, frameIndex))

\* const maxVelocity = frame.velocity * 350 || <analytic>
maxVelocity(fr, frameIndex) ==
    LET frame == suppliedFrame(fr, frameIndex)
    IN  IF frame.velocity * VelocityScale # 0
        THEN frame.velocity * VelocityScale
        ELSE AnalyticVelocity(frameTime(fr, frameIndex))

\* the squared distance of pressure cell (i, j) from the centre
PressureDistance2(i, j) ==
    (i - PressureCentre) * (i - PressureCentre)
        + (j - PressureCentre) * (j - PressureCentre)

\* mutant: the waveform without the cutoff at the wave front
pressureCellNoCutoff(t, maxP, i, j) ==
    LET d2 == PressureDistance2(i, j)
        distance == ISqrt(d2 * Scale * Scale)
        waveRadius == t * PropagationSpeed
        normalizedDistance == MulDiv(distance, Scale, waveRadius)
        timeAtDistance == Mul(normalizedDistance, t)
        tStarLocal == timeAtDistance \div 2
    IN  Max(0, IF waveRadius > 0
               THEN IF tStarLocal > 0
                    THEN Mul(Mul(maxP, Exp(-tStarLocal)), Scale - tStarLocal)
                    ELSE 0
               ELSE 0)

\* the body of the pressure loop: the cell (i, j) of the frame at time t
pressureCell(t, maxP, i, j) ==
    LET d2 == PressureDistance2(i, j)
        distance == ISqrt(d2 * Scale * Scale)
        waveRadius == t * PropagationSpeed
        normalizedDistance == MulDiv(distance, Scale, waveRadius)
        timeAtDistance == Mul(normalizedDistance, t)
        tStarLocal == timeAtDistance \div 2
    IN  Max(0, IF waveRadius > 0
                  /\ SquareAtLeast(d2 * Scale * Scale, waveRadius)
               THEN IF tStarLocal > 0
                    THEN Mul(Mul(maxP, Exp(-tStarLocal)), Scale - tStarLocal)
                    ELSE 0
               ELSE 0)

\* four times the squared distance of velocity cell (i, j) from the centre
VelocityDistance2(i, j) ==
    (2 * i - VelocityCentre2) * (2 * i - VelocityCentre2)
        + (2 * j - VelocityCentre2) * (2 * j - VelocityCentre2)

\* Math.abs(distance - waveRadius) < 3, for distance = sqrt(d4) / 2
InBand(d4, waveRadius) ==
    LET n  == d4 * ((Scale * Scale) \div 4)
        lo == waveRadius - BandWidth * Scale
        hi == waveRadius + BandWidth * Scale
    IN  /\ hi > 0
        /\ SquareAbove(n, hi)
        /\ (lo < 0 \/ ~SquareAtLeast(n, lo))

\* mutant: the band test without Math.abs
velocityCellNoAbs(t, maxV, i, j) ==
    LET d4 == VelocityDistance2(i, j)
        dx == (2 * i - VelocityCentre2) * (Scale \div 2)
        dy == (2 * j - VelocityCentre2) * (Scale \div 2)
        distance == ISqrt(d4 * ((Scale * Scale) \div 4))
        waveRadius == t * PropagationSpeed
        magnitude ==
            IF distance - waveRadius < BandWidth * Scale
            THEN Mul(maxV, Scale - Abs(distance - waveRadius) \div BandWidth)
            ELSE 0
    IN  IF d4 > 0
        THEN [x |-> MulDiv(magnitude, dx, distance),
              y |-> MulDiv(magnitude, dy, distance)]
        ELSE [x |-> 0, y |-> 0]

\* the body of the velocity loop: the cell (i, j) of the frame at time t
velocityCell(t, maxV, i, j) ==
    LET d4 == VelocityDistance2(i, j)
        dx == (2 * i - VelocityCentre2) * (Scale \div 2)
        dy == (2 * j - VelocityCentre2) * (Scale \div 2)
        distance == ISqrt(d4 * ((Scale * Scale) \div 4))
        waveRadius == t * PropagationSpeed
        magnitude ==
            IF InBand(d4, waveRadius)
            THEN Mul(maxV, Scale - Abs(distance - waveRadius) \div BandWidth)
            ELSE 0
    IN  IF d4 > 0
        THEN [x |-> MulDiv(magnitude, dx, distance),
              y |-> MulDiv(magnitude, dy, distance)]
        ELSE [x |-> 0, y |-> 0]

\* the frames SimulationPage supplies (its first two): time i * 0.1,
\* pressure 15 exp(-0.02 i) max(0, 1 - 0.004 i) bar,
\* velocity 350 exp(-0.015 i) max(0, sin(0.05 i)) m/s
MockFrames ==
    << [time |-> 0, pressure |-> 15000, velocity |-> 0],
       [time |-> 100, pressure |-> 14644, velocity |-> 17232] >>
\* frames that report zeros
ZeroFrames ==
    << [time |-> 0, pressure |-> 0, velocity |-> 0],
       [time |-> 0, pressure |-> 0, velocity |-> 0] >>
\* frames that report a negative time and negative scalars
NegativeFrames ==
    << [time |-> 500, pressure |-> -1000, velocity |-> -1000],
       [time |-> -1000, pressure |-> 0, velocity |-> 0] >>
\* values of the frames prop
SuppliedLists == {<< >>, MockFrames, ZeroFrames, NegativeFrames}
\* indices frames are generated for (t = 0, 0.1 and 1.0 without supplied data)
FieldIndices == {0, 1, 10}

\* no frame generated yet
\* the config prop's default
DefaultConfig == [explosiveType |-> "TNT", explosiveMass |-> 1000]

NoFrameData ==
    [frame |-> -1, time |-> 0, maxPressure |-> 0, maxVelocity |-> 0,
     via |-> "none", config |-> DefaultConfig]

\* the scalar part of the SimulationFrame generateFrameData(frameIndex) returns
SimulationFrame(fr, frameIndex) ==
    [frame |-> frameIndex,
     time |-> frameTime(fr, frameIndex),
     maxPressure |-> maxPressure(fr, frameIndex),
     maxVelocity |-> maxVelocity(fr, frameIndex)]

\* the cells the two loops push: 50 * 50 pressures, then 25 * 25 velocities
PressureCells == PressureGrid * PressureGrid
CellsDone == PressureCells + VelocityGrid * VelocityGrid

-----------------------------------------------------------------------------
(* The other components before their first step: the new-simulation page   *)
(* with the create API and the blast scaling, the data hook, the monitor   *)

\* null
Null == "null"

\* the new-simulation page's initial config
InitialForm == [name |-> "", explosiveType |-> "TNT", explosiveMass |-> 500,
                coordinates |-> TRUE]

\* the create API's mock database
StoredSimulations ==
    << [explosiveType |-> "TNT", explosiveMass |-> 500],
       [explosiveType |-> "C4", explosiveMass |-> 750],
       [explosiveType |-> "RDX", explosiveMass |-> 300] >>

NoPost == [name |-> "", explosiveType |-> "", explosiveMass |-> 0,
           coordinates |-> FALSE, status |-> 0, via |-> "none"]

NoBlast == [by |-> "none", explosiveType |-> "", explosiveMass |-> 0,
            tntEquivalent |-> 0, scaledDistance |-> 0, isNaN |-> FALSE]

ScalingInit ==
    /\ config = DefaultConfig
    /\ form = InitialForm
    /\ formError = Null
    /\ mockSimulations = StoredSimulations
    /\ posted = NoPost
    /\ blast = NoBlast

\* the empty string of lastBboxRef, a bbox string being its four numbers
NoBbox == <<>>

\* useRealTimeData(center, 1) at its first render, the fetch effect pending
HookInit(center) ==
    /\ mapCenter = center
    /\ loading = FALSE
    /\ error = Null
    /\ data = "none"
    /\ fetchingRef = FALSE
    /\ lastBboxRef = NoBbox
    /\ fetchData = [at |-> "idle", bboxString |-> NoBbox, by |-> "none"]
    /\ hook = [render |-> FALSE, effect |-> TRUE, center |-> center]
    /\ settled = NoBbox

\* the map's centre in the simulation pages (New York), in millidegrees
NewYork == <<40713, -74006>>

InitialEpochs == 10000

\* no startTraining call is running; no error is shown
NotTraining == [at |-> "idle", isTraining |-> FALSE, epoch |-> 0,
                error |-> Null, rounds |-> 0, completed |-> "none"]

\* the monitor as mounted
PinnInit ==
    /\ isTraining = FALSE
    /\ status = "idle"
    /\ progress = 0
    /\ currentEpoch = 0
    /\ totalEpochs = InitialEpochs
    /\ trainingMetrics = <<>>
    /\ finalMetrics = Null
    /\ training = NotTraining

-----------------------------------------------------------------------------
Init ==
    /\ frames_length \in FrameCounts
    /\ isPlaying = FALSE
    /\ currentFrame = 0
    /\ totalFrames = InitialTotalFrames(frames_length)
    /\ simulationData = NoFrame
    /\ playbackSpeed = InitialSpeed
    /\ canvas = NoFrame
    /\ animationRef = 0
    /\ timers = {}
    /\ rendered = [isPlaying |-> FALSE, currentFrame |-> 0,
                   playbackSpeed |-> InitialSpeed]
    /\ renderPending = FALSE
    /\ animPending = FALSE
    /\ initPending = TRUE
    /\ phase = "idle"
    /\ lastOp = "mount"
    /\ lastReq = 0
    /\ control = "none"
    /\ heldFrame = -1
    /\ sweep = 0
    /\ ScalingInit
    /\ HookInit(NewYork)
    /\ PinnInit
    /\ frames = <<>>
    /\ terrain = FALSE
    /\ generated = NoFrameData
    /\ emitted = [k \in FieldIndices |-> NoFrameData]
    /\ cell = CellsDone
    /\ pressure = 0
    /\ velocity = [x |-> 0, y |-> 0]

-----------------------------------------------------------------------------
\* the view takes input once it is mounted and no discrete update is in
\* progress
Ready == phase = "idle" /\ ~initPending

(* The closure of a render: the values its callbacks read *)
Closure == [isPlaying |-> isPlaying, currentFrame |-> currentFrame,
            playbackSpeed |-> playbackSpeed]

\* history kept by a step that is no play, pause, stop or seek
KeepControl == UNCHANGED <<control, heldFrame>>

\* history: the sweep restarts with play, pause, stop and seek, and moves on
\* when the frame it waits for is shown
Sweep ==
    sweep' = IF control' # "play" \/ lastOp' \in {"play", "skipBack", "slider",
                                                  "skipForward"}
             THEN 0
             ELSE IF currentFrame' = sweep THEN (sweep + 1) % totalFrames
             ELSE sweep

\* runAnimation of the render with closure c, tm being the pending timers
RunAnimation(c, tm) ==
    IF ~c.isPlaying
    THEN /\ timers' = tm
         /\ UNCHANGED <<currentFrame, simulationData, canvas, animationRef,
                        renderPending>>
    ELSE LET nextFrame == NextFrame(c.currentFrame, totalFrames)
             frameData == generateFrameData(nextFrame)
             id        == FreshTimerId(tm, animationRef)
         IN  /\ Cardinality(tm) < MaxTimers
             /\ currentFrame' = nextFrame
             /\ simulationData' = frameData
             /\ canvas' = frameData
             /\ timers' = tm \cup {[id |-> id, closure |-> c,
                                    delay |-> Delay(c.playbackSpeed)]}
             /\ animationRef' = id
             /\ renderPending' = TRUE

\* mutant: a seek that emits the frame of the index of its render, not of
\* its argument
handleFrameSeekStale(frame) ==
    /\ currentFrame' = frame
    /\ simulationData' = generateFrameData(rendered.currentFrame)
    /\ canvas' = generateFrameData(rendered.currentFrame)
    /\ renderPending' = TRUE
    /\ heldFrame' = IF control \in {"pause", "stop"} THEN frame ELSE -1
    /\ UNCHANGED <<frames_length, isPlaying, totalFrames, playbackSpeed,
                   animationRef, timers, rendered, animPending, initPending,
                   control>>

\* handleFrameSeek(frame)
handleFrameSeek(frame) ==
    /\ currentFrame' = frame
    /\ simulationData' = generateFrameData(frame)
    /\ canvas' = generateFrameData(frame)
    /\ renderPending' = TRUE
    /\ heldFrame' = IF control \in {"pause", "stop"} THEN frame ELSE -1
    /\ UNCHANGED <<frames_length, isPlaying, totalFrames, playbackSpeed,
                   animationRef, timers, rendered, animPending, initPending,
                   control>>

\* handlePlayPause: the play / pause button
HandlePlayPause ==
    /\ Ready
    /\ isPlaying' = ~rendered.isPlaying
    /\ renderPending' = TRUE
    /\ phase' = "pre"
    /\ lastOp' = IF rendered.isPlaying THEN "pause" ELSE "play"
    /\ lastReq' = 0
    /\ control' = IF rendered.isPlaying THEN "pause" ELSE "play"
    /\ heldFrame' = IF rendered.isPlaying THEN currentFrame ELSE -1
    /\ UNCHANGED <<frames_length, currentFrame, totalFrames, simulationData,
                   playbackSpeed, canvas, animationRef, timers, rendered,
                   animPending, initPending>>
    /\ UNCHANGED <<FieldVars, ScalingVars, HookVars, PinnVars>>
    /\ Sweep

\* handleStop: the stop button
HandleStop ==
    /\ Ready
    /\ isPlaying' = FALSE
    /\ currentFrame' = 0
    /\ timers' = IF animationRef # 0 THEN ClearTimeout(timers, animationRef)
                                     ELSE timers
    /\ simulationData' = generateFrameData(0)
    /\ canvas' = generateFrameData(0)
    /\ renderPending' = TRUE
    /\ phase' = "pre"
    /\ lastOp' = "stop"
    /\ lastReq' = 0
    /\ control' = "stop"
    /\ heldFrame' = 0
    /\ UNCHANGED <<frames_length, totalFrames, playbackSpeed, animationRef,
                   rendered, animPending, initPending>>
    /\ UNCHANGED <<FieldVars, ScalingVars, HookVars, PinnVars>>
    /\ Sweep

\* the skip-back button: handleFrameSeek(Math.max(0, currentFrame - 10))
SkipBack ==
    /\ Ready
    /\ handleFrameSeek(SkipBackTarget(rendered.currentFrame))
    /\ phase' = "pre"
    /\ lastOp' = "skipBack"
    /\ lastReq' = rendered.currentFrame - SkipStep
    /\ UNCHANGED <<FieldVars, ScalingVars, HookVars, PinnVars>>
    /\ Sweep

\* the skip-forward button:
\* handleFrameSeek(Math.min(totalFrames - 1, currentFrame + 10))
SkipForward ==
    /\ Ready
    /\ handleFrameSeek(SkipForwardTarget(rendered.currentFrame, totalFrames))
    /\ phase' = "pre"
    /\ lastOp' = "skipForward"
    /\ lastReq' = rendered.currentFrame + SkipStep
    /\ UNCHANGED <<FieldVars, ScalingVars, HookVars, PinnVars>>
    /\ Sweep

\* the frame slider (max = totalFrames - 1): a key press or pointer-down is a
\* discrete event, a drag is not
SliderSeek(v, discrete) ==
    /\ Ready
    /\ handleFrameSeek(SliderValue(v, 0, totalFrames - 1))
    /\ phase' = IF discrete THEN "pre" ELSE "idle"
    /\ lastOp' = "slider"
    /\ lastReq' = v
    /\ UNCHANGED <<FieldVars, ScalingVars, HookVars, PinnVars>>
    /\ Sweep

\* mutant: the speed slider without its min prop (the Slider's default is 0)
SetSpeedNoMin(v, discrete) ==
    LET speed == SliderValue(v, 0, SpeedSliderMax)
    IN  /\ Ready
        /\ playbackSpeed' = speed
        /\ renderPending' = (renderPending \/ speed # playbackSpeed)
        /\ phase' = IF discrete /\ speed # playbackSpeed THEN "pre" ELSE "idle"
        /\ lastOp' = "speed"
        /\ lastReq' = v
        /\ KeepControl
        /\ UNCHANGED <<frames_length, isPlaying, currentFrame, totalFrames,
                       simulationData, canvas, animationRef, timers, rendered,
                       animPending, initPending>>
        /\ UNCHANGED <<FieldVars, ScalingVars, HookVars, PinnVars>>
        /\ Sweep

\* the playback-speed slider (min 0.1, max 3): setPlaybackSpeed(value[0]);
\* the slider is moved by key presses and clicks on its track
SetSpeed(v, discrete) ==
    LET speed == SliderValue(v, SpeedSliderMin, SpeedSliderMax)
    IN  /\ Ready
        /\ playbackSpeed' = speed
        /\ renderPending' = (renderPending \/ speed # playbackSpeed)
        /\ phase' = IF discrete /\ speed # playbackSpeed THEN "pre" ELSE "idle"
        /\ lastOp' = "speed"
        /\ lastReq' = v
        /\ KeepControl
        /\ UNCHANGED <<frames_length, isPlaying, currentFrame, totalFrames,
                       simulationData, canvas, animationRef, timers, rendered,
                       animPending, initPending>>
        /\ UNCHANGED <<FieldVars, ScalingVars, HookVars, PinnVars>>
        /\ Sweep

\* React renders and commits the queued state; the animation effect is
\* scheduled when [isPlaying, runAnimation] changed (runAnimation changes with
\* isPlaying, currentFrame, totalFrames, generateFrameData, playbackSpeed)
Render ==
    /\ renderPending
    /\ ~animPending /\ ~initPending
    /\ rendered' = Closure
    /\ renderPending' = FALSE
    /\ animPending' = (Closure # rendered)
    /\ phase' = IF phase = "pre" /\ Closure # rendered THEN "post" ELSE "idle"
    /\ lastOp' = "render"
    /\ lastReq' = 0
    /\ KeepControl
    /\ UNCHANGED <<frames_length, isPlaying, currentFrame, totalFrames,
                   simulationData, playbackSpeed, canvas, animationRef,
                   timers, initPending>>
    /\ UNCHANGED <<FieldVars, ScalingVars, HookVars, PinnVars>>
    /\ Sweep

\* the mount effects: "Initialize with first frame" sets the frame of index
\* 0; the animation effect finds isPlaying false and does nothing
MountEffects ==
    /\ initPending
    /\ initPending' = FALSE
    /\ simulationData' = generateFrameData(0)
    /\ canvas' = generateFrameData(0)
    /\ renderPending' = TRUE
    /\ lastOp' = "flush"
    /\ lastReq' = 0
    /\ KeepControl
    /\ UNCHANGED <<frames_length, isPlaying, currentFrame, totalFrames,
                   playbackSpeed, animationRef, timers, rendered, animPending,
                   phase>>
    /\ UNCHANGED <<FieldVars, ScalingVars, HookVars, PinnVars>>
    /\ Sweep

\* the animation effect of the committed render: the cleanup of its previous
\* run clears the timer in animationRef, then runAnimation() when isPlaying
AnimationEffect ==
    /\ animPending /\ ~initPending
    /\ animPending' = FALSE
    /\ RunAnimation(rendered,
                    IF animationRef # 0 THEN ClearTimeout(timers, animationRef)
                                        ELSE timers)
    /\ phase' = IF phase = "post" THEN "idle" ELSE phase
    /\ lastOp' = IF rendered.isPlaying THEN "effectTick" ELSE "flush"
    /\ lastReq' = 0
    /\ KeepControl
    /\ UNCHANGED <<frames_length, isPlaying, totalFrames, playbackSpeed,
                   rendered, initPending>>
    /\ UNCHANGED <<FieldVars, ScalingVars, HookVars, PinnVars>>
    /\ Sweep

\* a pending timer expires: its callback calls the runAnimation it closed over
TimerFire(t) ==
    /\ phase = "idle"
    /\ t \in timers
    /\ RunAnimation(t.closure, timers \ {t})
    /\ lastOp' = "timerTick"
    /\ lastReq' = 0
    /\ KeepControl
    /\ UNCHANGED <<frames_length, isPlaying, totalFrames, playbackSpeed,
                   rendered, animPending, initPending, phase>>
    /\ UNCHANGED <<FieldVars, ScalingVars, HookVars, PinnVars>>
    /\ Sweep

Next ==
    \/ HandlePlayPause
    \/ HandleStop
    \/ SkipBack
    \/ SkipForward
    \/ \E v \in SeekRequests, d \in BOOLEAN : SliderSeek(v, d)
    \/ \E v \in SpeedRequests : SetSpeed(v, TRUE)
    \/ Render
    \/ MountEffects
    \/ AnimationEffect
    \/ \E t \in timers : TimerFire(t)

Spec == Init /\ [][Next]_vars

\* React's scheduler runs every render and effect it has scheduled, and a
\* pending timer that is not cleared expires
Fairness ==
    /\ WF_vars(Render)
    /\ WF_vars(MountEffects)
    /\ WF_vars(AnimationEffect)
    /\ SF_vars(\E t \in timers : TimerFire(t))

\* a view without supplied frames, under fair scheduling
LiveInit == Init /\ frames_length = 0

LiveSpec == LiveInit /\ [][Next]_vars /\ Fairness

-----------------------------------------------------------------------------
(* The frames of a view: every call of generateFrameData, cell by cell *)

\* a call starts: the frame record with the step that asked for it
StartFrame(made, via) ==
    LET started == [frame |-> made.frame, time |-> made.time,
                    maxPressure |-> made.maxPressure,
                    maxVelocity |-> made.maxVelocity, via |-> via,
                    config |-> config]
    IN  /\ cell = CellsDone
        /\ made.frame \in FieldIndices
        /\ generated' = started
        /\ emitted' = IF emitted[made.frame].frame = -1
                      THEN [emitted EXCEPT ![made.frame] = started]
                      ELSE emitted
        /\ cell' = 0
        /\ pressure' = 0
        /\ velocity' = [x |-> 0, y |-> 0]
        /\ UNCHANGED <<frames, terrain>>
        /\ UNCHANGED <<PlaybackVars, ScalingVars, HookVars, PinnVars>>

\* mutant: a frame integrated from the frame generated before it
GenerateFrameIncremental(frameIndex, via) ==
    LET t == IF generated.frame >= 0 THEN generated.time + FixedDt
             ELSE frameTime(frames, frameIndex)
    IN  StartFrame([frame |-> frameIndex, time |-> t,
                    maxPressure |-> AnalyticPressure(t),
                    maxVelocity |-> AnalyticVelocity(t)], via)

\* mutant: a frame whose peak pressure is scaled by the configured mass
GenerateFrameScaled(frameIndex, via) ==
    LET made == SimulationFrame(frames, frameIndex)
    IN  StartFrame([made EXCEPT !.maxPressure =
                        MulDiv(made.maxPressure, config.explosiveMass,
                               DefaultConfig.explosiveMass)], via)

\* generateFrameData(frameIndex), up to its loops
GenerateFrame(frameIndex, via) ==
    StartFrame(SimulationFrame(frames, frameIndex), via)

\* the "Initialize with first frame" effect: generateFrameData(0)
MountFrame ==
    /\ generated.frame = -1
    /\ GenerateFrame(0, "mount")

\* handleStop: generateFrameData(0)
StopFrame ==
    /\ generated.frame >= 0
    /\ GenerateFrame(0, "stop")

\* handleFrameSeek(frame): generateFrameData(frame)
SeekFrame(frame) ==
    /\ generated.frame >= 0
    /\ GenerateFrame(frame, "seek")

\* runAnimation: generateFrameData((currentFrame + 1) % totalFrames)
TickFrame ==
    /\ generated.frame >= 0
    /\ GenerateFrame(NextFrame(generated.frame, totalFrames), "tick")

\* one round of the pressure loop: row.push(Math.max(0, pressure))
PressureStep ==
    /\ cell < PressureCells
    /\ pressure' = pressureCell(generated.time, generated.maxPressure,
                                cell \div PressureGrid, cell % PressureGrid)
    /\ cell' = cell + 1
    /\ UNCHANGED <<frames, terrain, generated, emitted, velocity>>
    /\ UNCHANGED <<PlaybackVars, ScalingVars, HookVars, PinnVars>>

\* one round of the velocity loop: row.push({ x, y })
VelocityStep ==
    /\ PressureCells <= cell /\ cell < CellsDone
    /\ velocity' = velocityCell(generated.time, generated.maxVelocity,
                                (cell - PressureCells) \div VelocityGrid,
                                (cell - PressureCells) % VelocityGrid)
    /\ cell' = cell + 1
    /\ UNCHANGED <<frames, terrain, generated, emitted, pressure>>
    /\ UNCHANGED <<PlaybackVars, ScalingVars, HookVars, PinnVars>>

\* the buildings, roads and elevation props arrive or go
TerrainChange ==
    /\ cell = CellsDone
    /\ terrain' = ~terrain
    /\ UNCHANGED <<frames, generated, emitted, cell, pressure, velocity>>
    /\ UNCHANGED <<PlaybackVars, ScalingVars, HookVars, PinnVars>>

\* a view over one of the supplied lists, before its first frame
FieldInit ==
    /\ frames \in SuppliedLists
    /\ terrain \in BOOLEAN
    /\ generated = NoFrameData
    /\ emitted = [k \in FieldIndices |-> NoFrameData]
    /\ cell = CellsDone
    /\ pressure = 0
    /\ velocity = [x |-> 0, y |-> 0]
    /\ frames_length = Len(frames)
    /\ isPlaying = FALSE
    /\ currentFrame = 0
    /\ totalFrames = InitialTotalFrames(Len(frames))
    /\ simulationData = NoFrame
    /\ playbackSpeed = InitialSpeed
    /\ canvas = NoFrame
    /\ animationRef = 0
    /\ timers = {}
    /\ rendered = [isPlaying |-> FALSE, currentFrame |-> 0,
                   playbackSpeed |-> InitialSpeed]
    /\ renderPending = FALSE
    /\ animPending = FALSE
    /\ initPending = TRUE
    /\ phase = "idle"
    /\ lastOp = "mount"
    /\ lastReq = 0
    /\ control = "none"
    /\ heldFrame = -1
    /\ sweep = 0
    /\ ScalingInit
    /\ HookInit(NewYork)
    /\ PinnInit

FieldNext ==
    \/ MountFrame
    \/ StopFrame
    \/ \E k \in FieldIndices : SeekFrame(k)
    \/ TickFrame
    \/ PressureStep
    \/ VelocityStep
    \/ TerrainChange

FieldSpec == FieldInit /\ [][FieldNext]_vars

\* the pressure cell (i, j) pushed last, and the velocity cell pushed last
PressureI == (cell - 1) \div PressureGrid
PressureJ == (cell - 1) % PressureGrid
VelocityI == (cell - 1 - PressureCells) \div VelocityGrid
VelocityJ == (cell - 1 - PressureCells) % VelocityGrid
\* a pressure cell, a velocity cell was pushed last
AtPressure == 0 < cell /\ cell <= PressureCells
AtVelocity == PressureCells < cell

-----------------------------------------------------------------------------
(* Properties *)

TickOps == {"effectTick", "timerTick"}
SeekOps == {"skipBack", "slider", "skipForward"}

\* C1: In every state reachable through play/pause, stop, slider seek, skip
\* back/forward by 10 and ticks, currentFrame is an integer with
\* 0 <= currentFrame < totalFrames (and so is the rendered index).
C1_FrameInRange ==
    /\ currentFrame \in Int
    /\ 0 <= currentFrame /\ currentFrame < totalFrames
    /\ 0 <= rendered.currentFrame /\ rendered.currentFrame < totalFrames

\* a tick has wrapped from the last frame to frame 0 during playback
C1_Witness ==
    /\ lastOp \in TickOps
    /\ currentFrame = 0
    /\ \E t \in timers : t.closure.currentFrame = totalFrames - 1

\* C2: A seek asked for index r (the slider's value, or currentFrame -/+ 10
\* of the skip buttons) leaves currentFrame = min(max(r, 0), totalFrames - 1),
\* for r below 0 and for r >= totalFrames too.
C2_SeekClamps ==
    lastOp \in SeekOps =>
        currentFrame = (IF lastReq < 0 THEN 0
                        ELSE IF lastReq > totalFrames - 1 THEN totalFrames - 1
                        ELSE lastReq)

\* a skip back asked for a negative index and frame 0 resulted
C2_Witness ==
    /\ lastOp = "skipBack"
    /\ lastReq < 0
    /\ currentFrame = 0

\* C3 (as claimed): after pause() or stop() no tick runs until the next
\* play(): currentFrame is never changed by a tick while the view is not
\* playing, and a paused or stopped view keeps the frame it was left at.
C3_NoTickUnlessPlaying ==
    /\ lastOp \in TickOps => isPlaying
    /\ control \in {"pause", "stop"} => currentFrame = heldFrame

\* C4 (as claimed): a tick while playing sets currentFrame to
\* (currentFrame + 1) mod totalFrames.
C4_TickAdvancesByOne ==
    [][(lastOp' \in TickOps /\ isPlaying) =>
           currentFrame' = (currentFrame + 1) % totalFrames]_vars

\* C5 (as claimed): stop() leaves the view not playing at frame 0, showing
\* the frame of index 0, until the user plays or seeks again.
C5_StopLeavesFrameZero ==
    control = "stop" =>
        /\ ~isPlaying
        /\ currentFrame = heldFrame
        /\ canvas.frame = heldFrame

\* C6: a seek leaves isPlaying as it was, in every state, and the frame it
\* emits (drawn and stored) is the frame of the sought index.
C6_SeekKeepsStatus ==
    [][lastOp' \in SeekOps =>
           /\ isPlaying' = isPlaying
           /\ canvas'.frame = Min(Max(lastReq', 0), totalFrames - 1)
           /\ simulationData'.frame = canvas'.frame]_vars

\* a slider seek during playback emitted the sought frame and playback goes on
C6_Witness ==
    /\ lastOp = "slider"
    /\ lastReq = 5
    /\ isPlaying
    /\ canvas.frame = 5

C8_TickOnlyOnExpiry ==
    [][(lastOp' \in TickOps /\ isPlaying /\ timers # {}) =>
           lastOp' = "timerTick"]_vars

\* C9: the speed set through the slider is the requested value clamped into
\* [0.1, 3.0] (10.0 gives 3.0, 0.0 gives 0.1), and every tick delay is
\* 100 / speed for a speed in that range, never for a speed <= 0.
C9_SpeedClamped ==
    /\ 1 <= playbackSpeed /\ playbackSpeed <= 30
    /\ lastOp = "speed" =>
           playbackSpeed = (IF lastReq < 1 THEN 1
                            ELSE IF lastReq > 30 THEN 30 ELSE lastReq)
    /\ \A t \in timers :
           /\ 1 <= t.closure.playbackSpeed /\ t.closure.playbackSpeed <= 30
           /\ t.delay * t.closure.playbackSpeed <= 1000
           /\ (t.delay + 1) * t.closure.playbackSpeed > 1000

\* a tick was scheduled at speed 0.1, which a request for 0.0 produced
C9_Witness ==
    /\ playbackSpeed = 1
    /\ \E t \in timers : t.closure.playbackSpeed = 1 /\ t.delay = 1000

\* C10: totalFrames is max(frames.length, 250) for every supplied list, the
\* empty one included, so totalFrames >= 250 in every state.
C10_TotalFrames ==
    /\ totalFrames = (IF frames_length > 250 THEN frames_length ELSE 250)
    /\ totalFrames >= 250

\* playback has run over a frame list longer than 250 frames
C10_Witness ==
    /\ frames_length > 250
    /\ totalFrames = frames_length
    /\ lastOp \in TickOps
    /\ currentFrame = 250

-----------------------------------------------------------------------------
(* Properties of the generated frames (FieldSpec) *)

\* the index, time and scalars of a frame record
Scalars(f) == [frame |-> f.frame, time |-> f.time,
               maxPressure |-> f.maxPressure, maxVelocity |-> f.maxVelocity]

ZeroVector == [x |-> 0, y |-> 0]

C12_TimeSelection ==
    generated.frame >= 0 =>
        generated.time = (IF generated.frame < Len(frames)
                          THEN frames[generated.frame + 1].time
                          ELSE generated.frame * FixedDt)

\* C13 (as claimed): a supplied pressure (velocity) scalar is the amplitude:
\* it is reported as maxPressure (maxVelocity) and the field is the analytic
\* shape scaled to it.
C13_HybridAmplitude ==
    (generated.frame >= 0 /\ generated.frame < Len(frames)) =>
        LET frame == frames[generated.frame + 1]
        IN  /\ frame.pressure # 0 =>
                   /\ generated.maxPressure = frame.pressure
                   /\ AtPressure =>
                          pressure = pressureCell(generated.time,
                                                  frame.pressure,
                                                  PressureI, PressureJ)
            /\ frame.velocity # 0 =>
                   /\ generated.maxVelocity = frame.velocity
                   /\ AtVelocity =>
                          velocity = velocityCell(generated.time,
                                                  frame.velocity,
                                                  VelocityI, VelocityJ)

\* C14: for an index at or past the end of the supplied list (or without a
\* list) the frame has time index * 0.1 and the analytic waveform's maximum
\* pressure and velocity, and its loops run to the end.
C14_BeyondSupplied ==
    (generated.frame >= 0 /\ generated.frame >= Len(frames)) =>
        /\ generated.time = generated.frame * FixedDt
        /\ generated.maxPressure = AnalyticPressure(generated.frame * FixedDt)
        /\ generated.maxVelocity = AnalyticVelocity(generated.frame * FixedDt)
        /\ cell \in 0..CellsDone
        /\ pressure \in Int
        /\ velocity.x \in Int /\ velocity.y \in Int

\* frame 10 of a view with two supplied frames was generated completely
C14_Witness ==
    /\ Len(frames) = 2
    /\ generated.frame = 10
    /\ generated.time = 10 * FixedDt
    /\ generated.maxPressure > 0
    /\ cell = CellsDone

\* a frame is supplied at the index and reports the pressure 0, the velocity 0
SuppliedZeroPressure ==
    /\ generated.frame >= 0 /\ generated.frame < Len(frames)
    /\ frames[generated.frame + 1].pressure = 0
SuppliedZeroVelocity ==
    /\ generated.frame >= 0 /\ generated.frame < Len(frames)
    /\ frames[generated.frame + 1].velocity = 0

\* C15 (as claimed): a supplied pressure of 0 gives a maxPressure that is not
\* 0 but the analytic default at the frame's time; the same for a velocity.
C15_ZeroGivesNonZero ==
    /\ SuppliedZeroPressure =>
           /\ generated.maxPressure # 0
           /\ generated.maxPressure = AnalyticPressure(generated.time)
    /\ SuppliedZeroVelocity =>
           /\ generated.maxVelocity # 0
           /\ generated.maxVelocity = AnalyticVelocity(generated.time)

\* C15 (amended): a supplied pressure of 0 is treated as absent: maxPressure
\* is the analytic default at the frame's time, which may itself be 0; the
\* same for a supplied velocity of 0.
C15_ZeroIsAbsent ==
    /\ SuppliedZeroPressure =>
           generated.maxPressure = AnalyticPressure(generated.time)
    /\ SuppliedZeroVelocity =>
           generated.maxVelocity = AnalyticVelocity(generated.time)

\* a supplied frame that reports zeros got the analytic maxima of its time
C15_Witness ==
    /\ frames = ZeroFrames
    /\ generated.frame = 1
    /\ generated.maxPressure > 0
    /\ generated.maxVelocity > 0
    /\ cell = CellsDone

\* C16 (as claimed): a frame with a negative time has maxPressure 0 and
\* maxVelocity 0.
C16_NegativeTimeZero ==
    (generated.frame >= 0 /\ generated.time < 0) =>
        /\ generated.maxPressure = 0
        /\ generated.maxVelocity = 0

\* C17 (as claimed): a frame with time >= 0 has maxPressure >= 0 and
\* maxVelocity >= 0, analytic or supplied.
C17_ScalarsNonNegative ==
    (generated.frame >= 0 /\ generated.time >= 0) =>
        /\ generated.maxPressure >= 0
        /\ generated.maxVelocity >= 0

\* C18: every pressure cell is >= 0, every cell farther from the centre
\* (25, 25) than waveRadius = 8 t is exactly 0, and at t = 1.0 every non-zero
\* cell lies within 8 grid units of the centre.
C18_PressureField ==
    AtPressure =>
        LET d2 == (PressureI - 25) * (PressureI - 25)
                      + (PressureJ - 25) * (PressureJ - 25)
            waveRadius == 8 * generated.time
        IN  /\ pressure >= 0
            /\ (waveRadius < 0
                    \/ d2 * Scale * Scale > waveRadius * waveRadius) =>
                   pressure = 0
            /\ (generated.time = Scale /\ pressure # 0) => d2 <= 8 * 8

\* at t = 1.0 a cell on the wave front, 8 units from the centre, is not zero
C18_Witness ==
    /\ AtPressure
    /\ generated.time = Scale
    /\ PressureDistance2(PressureI, PressureJ) = 64
    /\ pressure > 0

\* C19 (as claimed): the frame of index 0 at time 0 has an all-zero pressure
\* field, an all-zero velocity field and maxPressure = 15.0.
C19_ZeroTimeFrame ==
    (generated.frame = 0 /\ generated.time = 0) =>
        /\ generated.maxPressure = 15 * Scale
        /\ AtPressure => pressure = 0
        /\ AtVelocity => velocity = ZeroVector

\* C20: a velocity cell with |d - 8t| >= 3 is the zero vector; a cell in the
\* band is maxVelocity * (1 - |d - 8t| / 3) times the unit vector from the
\* centre to the cell (outward for a maxVelocity >= 0); a cell at d = 0 is
\* the zero vector.
C20_VelocityField ==
    AtVelocity =>
        LET d4 == VelocityDistance2(VelocityI, VelocityJ)
            dx == (2 * VelocityI - 25) * (Scale \div 2)
            dy == (2 * VelocityJ - 25) * (Scale \div 2)
            d  == ISqrt(d4 * ((Scale * Scale) \div 4))
            waveRadius == 8 * generated.time
            m  == Mul(generated.maxVelocity,
                      Scale - Abs(d - waveRadius) \div 3)
        IN  /\ ~InBand(d4, waveRadius) => velocity = ZeroVector
            /\ d4 = 0 => velocity = ZeroVector
            /\ (InBand(d4, waveRadius) /\ d4 > 0) =>
                   /\ velocity = [x |-> MulDiv(m, dx, d),
                                  y |-> MulDiv(m, dy, d)]
                   /\ generated.maxVelocity >= 0 =>
                          /\ velocity.x * (2 * VelocityI - 25) >= 0
                          /\ velocity.y * (2 * VelocityJ - 25) >= 0

\* a cell inside the band holds a non-zero vector, and a cell behind the band
\* (nearer the centre) holds the zero vector
C20_Witness ==
    /\ AtVelocity
    /\ generated.maxVelocity > 0
    /\ InBand(VelocityDistance2(VelocityI, VelocityJ), 8 * generated.time)
    /\ velocity.x # 0
    /\ velocity.y # 0

\* the pressure cell of row 25 that lies inside the wave front and nearest
\* to it (the centre cell when the front has not left it)
FrontCell(t, maxP) ==
    pressureCell(t, maxP, PressureCentre,
                 PressureCentre + Max(0, (t * PropagationSpeed) \div Scale))

\* C21 (as claimed): at a time t > 0 with maxPressure > 0 the pressure is
\* highest near the wave front: no cell inside the front holds more than the
\* cell next to the front.
C21_PeakAtFront ==
    (AtPressure /\ generated.time > 0 /\ generated.maxPressure > 0
         /\ SquareAtLeast(PressureDistance2(PressureI, PressureJ)
                              * Scale * Scale,
                          generated.time * PropagationSpeed)) =>
        pressure <= FrontCell(generated.time, generated.maxPressure)

-----------------------------------------------------------------------------
(* Further properties of the playback controller (Spec) *)

\* C25: at most one advancement timer is pending at any moment, and it is
\* the one animationRef holds.
C25_OneTimer ==
    /\ Cardinality(timers) <= 1
    /\ \A t \in timers : t.id = animationRef

\* a timer is pending during playback after a seek replaced the render that
\* scheduled the one before it
C25_Witness ==
    /\ isPlaying
    /\ Cardinality(timers) = 1
    /\ lastOp = "effectTick"
    /\ \E t \in timers : t.closure.currentFrame = 5

\* C26 (as claimed): a seek during playback is not overwritten by a tick in
\* flight: the tick that follows the seek to k yields (k + 1) mod
\* totalFrames.
C26_SeekNotLost ==
    [][(lastOp \in SeekOps /\ isPlaying /\ lastOp' \in TickOps) =>
           currentFrame' = (currentFrame + 1) % totalFrames]_vars

\* C27: once the first frame is emitted, the index of the frame stored and
\* of the frame drawn is currentFrame.
C27_FrameIsCurrent ==
    simulationData # NoFrame =>
        /\ simulationData.frame = currentFrame
        /\ canvas.frame = currentFrame

\* a tick during playback emitted the frame it advanced to
C27_Witness ==
    /\ lastOp \in TickOps
    /\ currentFrame = 2
    /\ simulationData.frame = 2
    /\ canvas.frame = 2

-----------------------------------------------------------------------------
(* The new-simulation page (src/app/new-sim/page.tsx), the create API      *)
(* (src/unnamed/part_006) and the two blast scalings (calculateBlastRadius *)
(* of src/unnamed/part_002, renderBlastWave of src/unnamed/part_000).      *)
(* Masses are in kg, TNT equivalents and distances in fixed point.         *)

\* the store holds at most this many simulations
MaxStored == 4

\* the SelectItems of the explosive type
ExplosiveTypes == {"TNT", "C4", "PETN", "RDX", "ANFO"}

\* names typed into the form
Names == {"", " ", "NYC"}

\* what the mass input holds, as Number.parseInt reads it
TypedMasses == {[isNaN |-> TRUE, value |-> 0], [isNaN |-> FALSE, value |-> -5],
                [isNaN |-> FALSE, value |-> 0], [isNaN |-> FALSE, value |-> 750]}

\* the configs a page hands to the viewer and the map
Configs == [explosiveType : ExplosiveTypes, explosiveMass : {-5, 0, 1000}]

\* the bodies other clients send to the create API
Bodies == [name : {"", "api"}, explosiveType : {"TNT"},
           explosiveMass : {-5, 0, 500}, coordinates : BOOLEAN]

\* config.name.trim()
Trim(name) == IF name = " " THEN "" ELSE name

\* Number.parseInt(e.target.value) || 0
ParsedMass(typed) == IF typed.isNaN \/ typed.value = 0 THEN 0 ELSE typed.value

Created == 201
BadRequest == 400

\* the first required field with !body[field], Null when there is none
MissingField(body) ==
    IF body.name = "" THEN "name"
    ELSE IF body.explosiveType = "" THEN "explosiveType"
    ELSE IF body.explosiveMass = 0 THEN "explosiveMass"
    ELSE IF ~body.coordinates THEN "coordinates"
    ELSE Null

\* POST /api/simulations
POST(body, via) ==
    LET request == [name |-> body.name, explosiveType |-> body.explosiveType,
                    explosiveMass |-> body.explosiveMass,
                    coordinates |-> body.coordinates, status |-> 0,
                    via |-> via]
    IN  IF MissingField(body) # Null
        THEN /\ posted' = [request EXCEPT !.status = BadRequest]
             /\ UNCHANGED mockSimulations
        ELSE /\ mockSimulations' =
                    Append(mockSimulations,
                           [explosiveType |-> body.explosiveType,
                            explosiveMass |-> body.explosiveMass])
             /\ posted' = [request EXCEPT !.status = Created]

\* the name input's onChange
SetName(name) ==
    /\ form' = [form EXCEPT !.name = name]
    /\ UNCHANGED <<config, formError, mockSimulations, posted, blast>>
    /\ UNCHANGED <<PlaybackVars, FieldVars, HookVars, PinnVars>>

\* the type select's onValueChange
SetType(type) ==
    /\ form' = [form EXCEPT !.explosiveType = type]
    /\ UNCHANGED <<config, formError, mockSimulations, posted, blast>>
    /\ UNCHANGED <<PlaybackVars, FieldVars, HookVars, PinnVars>>

\* the mass input's onChange
SetMass(typed) ==
    /\ form' = [form EXCEPT !.explosiveMass = ParsedMass(typed)]
    /\ UNCHANGED <<config, formError, mockSimulations, posted, blast>>
    /\ UNCHANGED <<PlaybackVars, FieldVars, HookVars, PinnVars>>

\* handleSubmit, with the API's answer
handleSubmit ==
    /\ Len(mockSimulations) < MaxStored
    /\ IF Trim(form.name) = ""
       THEN /\ formError' = "Simulation name is required"
            /\ UNCHANGED <<mockSimulations, posted>>
       ELSE IF form.explosiveMass <= 0
       THEN /\ formError' = "Explosive mass must be greater than 0"
            /\ UNCHANGED <<mockSimulations, posted>>
       ELSE /\ POST(form, "form")
            /\ formError' = IF MissingField(form) # Null
                            THEN "Missing required field"
                            ELSE Null
    /\ UNCHANGED <<config, form, blast>>
    /\ UNCHANGED <<PlaybackVars, FieldVars, HookVars, PinnVars>>

\* another client posts a body to the create API
CreateSimulation(body) ==
    /\ Len(mockSimulations) < MaxStored
    /\ POST(body, "api")
    /\ UNCHANGED <<config, form, formError, blast>>
    /\ UNCHANGED <<PlaybackVars, FieldVars, HookVars, PinnVars>>

\* the TNT-equivalence factor calculateBlastRadius applies to every other type
C4Factor == 1340

\* the radius of 1000 kg of TNT, in metres
BaseRadius == 100

\* the reference mass, in kg
ReferenceMass == 1000

\* the largest cube root of a 32-bit integer
CbrtMax == 1290

RECURSIVE CbrtSearch(_, _, _)
\* the largest k in lo .. hi with k * k * k <= n
CbrtSearch(n, lo, hi) ==
    IF lo >= hi THEN lo
    ELSE LET mid == (lo + hi + 1) \div 2
         IN  IF mid * mid * mid <= n THEN CbrtSearch(n, mid, hi)
             ELSE CbrtSearch(n, lo, mid - 1)

\* Math.pow(x, 1 / 3): NaN for a negative x
Cbrt(x) ==
    IF x < 0 THEN [isNaN |-> TRUE, value |-> 0]
    ELSE [isNaN |-> FALSE, value |-> CbrtSearch(x * Scale * Scale, 0, CbrtMax)]

\* calculateBlastRadius(mass, type)
calculateBlastRadius(mass, type) ==
    LET tntEquivalent == IF type = "TNT" THEN mass * Scale ELSE mass * C4Factor
        root == Cbrt(tntEquivalent \div ReferenceMass)
    IN  [by |-> "calculateBlastRadius", explosiveType |-> type,
         explosiveMass |-> mass, tntEquivalent |-> tntEquivalent,
         radius |-> root.value * BaseRadius, isNaN |-> root.isNaN]

\* renderBlastWave(ctx, frameData, explosive, width, height), its scaling
renderBlastWave(explosive) ==
    LET tntEquivalent == IF explosive.explosiveMass # 0
                         THEN explosive.explosiveMass * Scale
                         ELSE ReferenceMass * Scale
        scaledDistance == Cbrt(tntEquivalent \div ReferenceMass)
    IN  [by |-> "renderBlastWave", explosiveType |-> explosive.explosiveType,
         explosiveMass |-> explosive.explosiveMass,
         tntEquivalent |-> tntEquivalent,
         scaledDistance |-> scaledDistance.value,
         isNaN |-> scaledDistance.isNaN]

\* a page hands a simulation's config to the viewer and the map; nothing
\* is computed from it yet
ConfigChange(c) ==
    /\ config # c
    /\ config' = c
    /\ blast' = NoBlast
    /\ UNCHANGED <<form, formError, mockSimulations, posted>>
    /\ UNCHANGED <<PlaybackVars, FieldVars, HookVars, PinnVars>>

\* the map draws the blast radius of its explosiveParams
DrawBlastRadius ==
    /\ blast' = calculateBlastRadius(config.explosiveMass, config.explosiveType)
    /\ UNCHANGED <<config, form, formError, mockSimulations, posted>>
    /\ UNCHANGED <<PlaybackVars, FieldVars, HookVars, PinnVars>>

\* renderFrame draws the blast wave of the config
DrawBlastWave ==
    /\ blast' = renderBlastWave(config)
    /\ UNCHANGED <<config, form, formError, mockSimulations, posted>>
    /\ UNCHANGED <<PlaybackVars, FieldVars, HookVars, PinnVars>>

ScalingNext ==
    \/ \E name \in Names : SetName(name)
    \/ \E type \in ExplosiveTypes : SetType(type)
    \/ \E typed \in TypedMasses : SetMass(typed)
    \/ handleSubmit
    \/ \E body \in Bodies : CreateSimulation(body)
    \/ \E c \in Configs : ConfigChange(c)
    \/ DrawBlastRadius
    \/ DrawBlastWave

ScalingSpec == LiveInit /\ [][ScalingNext]_vars

\* C22 (as claimed): for a positive mass the TNT equivalent is mass * 1.34
\* for C4 and the mass itself for every other type; the map's radius is
\* 100 m times the cube root of (equivalent / 1000), 100 m for 1000 kg of TNT
C22_TntEquivalence ==
    (blast.by # "none" /\ blast.explosiveMass > 0) =>
        /\ blast.tntEquivalent =
               blast.explosiveMass *
                   (IF blast.explosiveType = "C4" THEN C4Factor ELSE Scale)
        /\ blast.by = "calculateBlastRadius" =>
               /\ ~blast.isNaN
               /\ blast.radius =
                      BaseRadius * Cbrt(blast.tntEquivalent \div ReferenceMass).value
               /\ (blast.explosiveType = "TNT"
                       /\ blast.explosiveMass = ReferenceMass) =>
                      blast.radius = BaseRadius * Scale

\* C23 (as claimed): a body whose mass is not greater than 0 is answered
\* with an error, by the form and by the create API, and no stored
\* simulation has such a mass
C23_NonPositiveRejected ==
    /\ (posted.via # "none" /\ posted.explosiveMass <= 0) =>
           posted.status = BadRequest
    /\ \A k \in 1 .. Len(mockSimulations) :
           mockSimulations[k].explosiveMass > 0

\* C24 (as claimed): the TNT equivalent a scaling used is the configured
\* mass times a factor, for every configured mass, 0 included
C24_NoDefaultMass ==
    blast.by # "none" =>
        blast.tntEquivalent \in {blast.explosiveMass * Scale,
                                 blast.explosiveMass * C4Factor}

-----------------------------------------------------------------------------
(* A view whose config prop changes between the frames it generates *)

\* the configs of the simulations a page opens in the viewer
ViewConfigs == {DefaultConfig, StoredSimulations[2]}

\* the page hands another simulation's config to the mounted view
ViewConfigChange(c) ==
    /\ cell = CellsDone
    /\ c \in ViewConfigs
    /\ ConfigChange(c)

ViewInit ==
    /\ FieldInit
    /\ frames \in {<<>>, MockFrames}
    /\ ~terrain

ViewNext ==
    \/ MountFrame
    \/ \E k \in FieldIndices : SeekFrame(k)
    \/ PressureStep
    \/ VelocityStep
    \/ \E c \in ViewConfigs : ViewConfigChange(c)

ViewSpec == ViewInit /\ [][ViewNext]_vars

-----------------------------------------------------------------------------
(* useRealTimeData (src/hooks/use-real-time-data.ts) as RealTimeMap calls  *)
(* it: useRealTimeData(mapCenter, 1).  Every render of the hook builds a   *)
(* new bbox object with createBoundingBox, so fetchData and the fetch      *)
(* effect's dependencies change with every render and the effect runs      *)
(* after every commit, before any answer or event is handled.             *)
(* Coordinates are in millidegrees.                                        *)

\* the km of one degree of latitude
KmPerDegree == 111320

\* the radius RealTimeMap asks for, in km
RadiusKm == Scale

\* the centres a map click chooses
MapCenters == {NewYork, <<48857, 2352>>}

\* createBoundingBox(lat, lng, radiusKm)
createBoundingBox(lat, lng, radiusKm) ==
    LET latDelta == MulDiv(radiusKm, Scale, KmPerDegree)
        lngDelta == MulDiv(radiusKm, Scale,
                           Mul(KmPerDegree,
                               Sin(MulDiv(lat, Pi, 180 * Scale) + HalfPi)))
    IN  [south |-> lat - latDelta, west |-> lng - lngDelta,
         north |-> lat + latDelta, east |-> lng + lngDelta]

\* `${bbox.south},${bbox.west},${bbox.north},${bbox.east}`
BboxString(bbox) == <<bbox.south, bbox.west, bbox.north, bbox.east>>

\* the bbox string of a render with this centre
RenderedBbox(center) ==
    BboxString(createBoundingBox(center[1], center[2], RadiusKm))

\* fetchData(), up to its first await
FetchStart(bboxString, by) ==
    IF fetchingRef \/ bboxString = lastBboxRef
    THEN UNCHANGED <<fetchingRef, loading, error, fetchData>>
         /\ hook' = [hook EXCEPT !.effect = FALSE]
    ELSE /\ fetchingRef' = TRUE
         /\ loading' = TRUE
         /\ error' = Null
         /\ fetchData' = [at |-> "health", bboxString |-> bboxString,
                          by |-> by]
         /\ hook' = [hook EXCEPT !.effect = FALSE, !.render = TRUE]

\* a render of the hook commits, the effects of the render before it having
\* run: a new bbox, a new fetchData, the effect due
HookRender ==
    /\ hook.render
    /\ ~hook.effect
    /\ hook' = [render |-> FALSE, effect |-> TRUE, center |-> mapCenter]
    /\ UNCHANGED <<mapCenter, loading, error, data, fetchingRef, lastBboxRef,
                   fetchData, settled>>
    /\ UNCHANGED <<PlaybackVars, FieldVars, ScalingVars, PinnVars>>

\* the fetch effect: if (enabled && bbox) fetchData()
FetchEffect ==
    /\ hook.effect
    /\ FetchStart(RenderedBbox(hook.center), "effect")
    /\ UNCHANGED <<mapCenter, data, lastBboxRef, settled>>
    /\ UNCHANGED <<PlaybackVars, FieldVars, ScalingVars, PinnVars>>

\* the health check answers or fails
HealthResponse(ok) ==
    /\ ~hook.effect
    /\ fetchData.at = "health"
    /\ fetchData' = [fetchData EXCEPT !.at = IF ok THEN "backend" ELSE "direct"]
    /\ UNCHANGED <<mapCenter, loading, error, data, fetchingRef, lastBboxRef,
                   hook, settled>>
    /\ UNCHANGED <<PlaybackVars, FieldVars, ScalingVars, PinnVars>>

\* the backend's data answer: data on ok, the catch block otherwise; finally
BackendResponse(ok) ==
    /\ ~hook.effect
    /\ fetchData.at = "backend"
    /\ IF ok
       THEN /\ data' = "real"
            /\ lastBboxRef' = fetchData.bboxString
            /\ settled' = NoBbox
            /\ UNCHANGED error
       ELSE /\ error' = "Backend API error"
            /\ data' = "mock"
            /\ settled' = fetchData.bboxString
            /\ UNCHANGED lastBboxRef
    /\ loading' = FALSE
    /\ fetchingRef' = FALSE
    /\ fetchData' = [fetchData EXCEPT !.at = "idle"]
    /\ hook' = [hook EXCEPT !.render = TRUE]
    /\ UNCHANGED mapCenter
    /\ UNCHANGED <<PlaybackVars, FieldVars, ScalingVars, PinnVars>>

\* the direct API calls end, each failure caught; finally
DirectResponse ==
    /\ ~hook.effect
    /\ fetchData.at = "direct"
    /\ data' = "real"
    /\ lastBboxRef' = fetchData.bboxString
    /\ settled' = NoBbox
    /\ loading' = FALSE
    /\ fetchingRef' = FALSE
    /\ fetchData' = [fetchData EXCEPT !.at = "idle"]
    /\ hook' = [hook EXCEPT !.render = TRUE]
    /\ UNCHANGED <<mapCenter, error>>
    /\ UNCHANGED <<PlaybackVars, FieldVars, ScalingVars, PinnVars>>

\* refetch(), of the render committed last
refetch ==
    /\ ~hook.effect
    /\ lastBboxRef' = NoBbox
    /\ settled' = NoBbox
    /\ IF fetchingRef
       THEN UNCHANGED <<fetchingRef, loading, error, fetchData, hook>>
       ELSE /\ fetchingRef' = TRUE
            /\ loading' = TRUE
            /\ error' = Null
            /\ fetchData' = [at |-> "health",
                             bboxString |-> RenderedBbox(hook.center),
                             by |-> "refetch"]
            /\ hook' = [hook EXCEPT !.render = TRUE]
    /\ UNCHANGED <<mapCenter, data>>
    /\ UNCHANGED <<PlaybackVars, FieldVars, ScalingVars, PinnVars>>

\* handleMapClick(lat, lng)
handleMapClick(center) ==
    /\ ~hook.effect
    /\ center # mapCenter
    /\ mapCenter' = center
    /\ settled' = NoBbox
    /\ hook' = [hook EXCEPT !.render = TRUE]
    /\ UNCHANGED <<loading, error, data, fetchingRef, lastBboxRef, fetchData>>
    /\ UNCHANGED <<PlaybackVars, FieldVars, ScalingVars, PinnVars>>

HookNext ==
    \/ HookRender
    \/ FetchEffect
    \/ \E ok \in BOOLEAN : HealthResponse(ok)
    \/ \E ok \in BOOLEAN : BackendResponse(ok)
    \/ DirectResponse
    \/ refetch
    \/ \E center \in MapCenters : handleMapClick(center)

HookSpec == LiveInit /\ [][HookNext]_vars

\* C29 (as claimed): once a fetch for a bbox has ended with an error, no
\* fetch for that bbox starts unless refetch() is called or the bbox changes
C29_RestAfterError ==
    [][(settled # NoBbox /\ fetchData.at = "idle" /\ fetchData'.at = "health")
           => fetchData'.by = "refetch"]_vars

-----------------------------------------------------------------------------
(* PINNTrainingMonitor (src/components/pinn-training-monitor.tsx).         *)
(* startTraining and simulateMockTraining are the functions of the render  *)
(* in which the button was clicked: the isTraining they read is the value  *)
(* of that render.  A step is what runs between two awaits; the renders    *)
(* commit between the steps.                                               *)

\* mockEpochs, and the steps of the mock loop and of the progress interval
MockEpochs == 1000
EpochStep == 50
IntervalStep == 100

\* the points prev.slice(-50) keeps
KeptPoints == 50

\* [...prev.slice(-50), { epoch, ... }], a point being its epoch
AddPoint(prev, epoch) ==
    Append(IF Len(prev) <= KeptPoints THEN prev
           ELSE SubSeq(prev, Len(prev) - KeptPoints + 1, Len(prev)),
           epoch)

\* the button's onClick, enabled unless isTraining: startTraining up to the
\* health check
startTraining ==
    /\ ~isTraining
    /\ training.at = "idle"
    /\ isTraining' = TRUE
    /\ status' = "training"
    /\ progress' = 0
    /\ trainingMetrics' = <<>>
    /\ training' = [at |-> "health", isTraining |-> isTraining, epoch |-> 0,
                    error |-> Null, rounds |-> 0, completed |-> "none"]
    /\ UNCHANGED <<currentEpoch, totalEpochs, finalMetrics>>
    /\ UNCHANGED <<PlaybackVars, FieldVars, ScalingVars, HookVars>>

\* the health check answers or fails: the train request, or
\* simulateMockTraining up to its loop
TrainingHealth(ok) ==
    /\ training.at = "health"
    /\ IF ok
       THEN /\ training' = [training EXCEPT !.at = "train"]
            /\ UNCHANGED totalEpochs
       ELSE /\ training' = [training EXCEPT !.at = "mock"]
            /\ totalEpochs' = MockEpochs
    /\ UNCHANGED <<isTraining, status, progress, currentEpoch,
                   trainingMetrics, finalMetrics>>
    /\ UNCHANGED <<PlaybackVars, FieldVars, ScalingVars, HookVars>>

\* the train request answers: the result on ok, else the catch block with
\* simulateMockTraining up to its loop
TrainResponse(ok) ==
    /\ training.at = "train"
    /\ IF ok
       THEN /\ finalMetrics' = "result.metrics"
            /\ status' = "completed"
            /\ progress' = 100
            /\ isTraining' = FALSE
            /\ training' = [training EXCEPT !.at = "idle",
                                            !.completed = "result.metrics"]
            /\ UNCHANGED totalEpochs
       ELSE /\ training' = [training EXCEPT !.at = "mock",
                                            !.error = "Training failed"]
            /\ totalEpochs' = MockEpochs
            /\ UNCHANGED <<finalMetrics, status, progress, isTraining>>
    /\ UNCHANGED <<currentEpoch, trainingMetrics>>
    /\ UNCHANGED <<PlaybackVars, FieldVars, ScalingVars, HookVars>>

\* simulateMockTraining from its loop test on: one round of the loop up to
\* its await, or, the loop left, the mock metrics and startTraining's finally
MockRound ==
    /\ training.at \in {"mock", "sleep"}
    /\ IF training.epoch <= MockEpochs /\ training.isTraining
       THEN /\ currentEpoch' = training.epoch
            /\ progress' = (training.epoch * 100) \div MockEpochs
            /\ trainingMetrics' = AddPoint(trainingMetrics, training.epoch)
            /\ training' = [training EXCEPT !.at = "sleep",
                                            !.epoch = @ + EpochStep,
                                            !.rounds = @ + 1]
            /\ UNCHANGED <<isTraining, status, finalMetrics>>
       ELSE /\ finalMetrics' = "mockMetrics"
            /\ status' = "completed"
            /\ progress' = 100
            /\ isTraining' = FALSE
            /\ training' = [training EXCEPT !.at = "idle",
                                            !.completed = "mockMetrics"]
            /\ UNCHANGED <<currentEpoch, trainingMetrics>>
    /\ UNCHANGED totalEpochs
    /\ UNCHANGED <<PlaybackVars, FieldVars, ScalingVars, HookVars>>

\* the progress interval fires, set while isTraining and status "training";
\* not between simulateMockTraining's call and its loop test
IntervalTick ==
    /\ isTraining
    /\ status = "training"
    /\ training.at # "mock"
    /\ LET newEpoch == Min(currentEpoch + IntervalStep, totalEpochs)
       IN  /\ currentEpoch' = newEpoch
           /\ progress' = (newEpoch * 100) \div totalEpochs
           /\ trainingMetrics' = AddPoint(trainingMetrics, newEpoch)
    /\ UNCHANGED <<isTraining, status, totalEpochs, finalMetrics, training>>
    /\ UNCHANGED <<PlaybackVars, FieldVars, ScalingVars, HookVars>>

PinnNext ==
    \/ startTraining
    \/ \E ok \in BOOLEAN : TrainingHealth(ok)
    \/ \E ok \in BOOLEAN : TrainResponse(ok)
    \/ MockRound
    \/ IntervalTick

PinnSpec == LiveInit /\ [][PinnNext]_vars

\* C30 (as claimed): when mock training has completed, its loop has run
\* every round, epoch 0, 50, ..., 1000, a loss point recorded in each, and
\* left the current epoch at 1000; nothing cancels a training, so the
\* loop's cancellation check never ends it early
C30_MockRunsAllEpochs ==
    training.completed = "mockMetrics" =>
        /\ training.rounds = MockEpochs \div EpochStep + 1
        /\ currentEpoch = MockEpochs

====
